---- MODULE Spec2Model ----
(***************************************************************************)
(* Rift Rewind: the match-history aggregation pipeline of bot.py (Telegram *)
(* bot) and final.py (Streamlit dashboard).                                *)
(*                                                                         *)
(* Strings are sequences of code points, so that str.lower() and Python's  *)
(* string ordering are computed, not assumed.  Percentages are kept in     *)
(* tenths (winRatePct 33.3 is 333) and KDA ratios in hundredths.           *)
(***************************************************************************)
EXTENDS Integers, Sequences, FiniteSets, TLC

\* ------------------------------------------------------------------ bounds
MaxIds == 2

\* --------------------------------------------------------------- strings
\* code points: '#' 35, '1' 49, '?' 63, 'A' 65, 'B' 66, 'a' 97, 'b' 98, 'c' 99
Absent == <<-1>>
EmptyStr == <<>>
Hash == <<35>>
QMark == <<63>>

lower(s) == [i \in DOMAIN s |-> IF s[i] \in 65..90 THEN s[i] + 32 ELSE s[i]]

get(v, default) == IF v = Absent THEN default ELSE v

RECURSIVE StrLess(_, _)
StrLess(s, t) ==
    IF t = <<>> THEN FALSE
    ELSE IF s = <<>> THEN TRUE
    ELSE IF s[1] < t[1] THEN TRUE
    ELSE IF s[1] > t[1] THEN FALSE
    ELSE StrLess(Tail(s), Tail(t))

\* ------------------------------------------------------------- arithmetic
max(a, b) == IF a >= b THEN a ELSE b

\* round(num/den * scale) to the nearest integer, ties to even (Python round)
round(num, den) ==
    LET q == num \div den
        r == num % den
    IN  IF 2 * r < den THEN q
        ELSE IF 2 * r > den THEN q + 1
        ELSE IF q % 2 = 0 THEN q ELSE q + 1

\* ------------------------------------------------------- upstream payloads
P(n, t, team, w, k, d, a, dmg) ==
    [riotIdGameName |-> n, riotIdTagline |-> t, teamId |-> team, win |-> w,
     kills |-> k, deaths |-> d, assists |-> a,
     totalDamageDealtToChampions |-> dmg]

None == [kind |-> "None", matchId |-> 0, gameDuration |-> 0, participants |-> <<>>]

Match(id, dur, ps) ==
    [kind |-> "match", matchId |-> id, gameDuration |-> dur, participants |-> ps]

\* a truthy JSON object that carries no "info" key
NoInfo == [kind |-> "noinfo", matchId |-> 0, gameDuration |-> 0, participants |-> <<>>]

HasInfo(m) == m.kind = "match"

\* ------------------------------------------------------ player extraction
SameRiotId(p, name, tag) ==
    /\ lower(get(p.riotIdGameName, EmptyStr)) = lower(name)
    /\ lower(get(p.riotIdTagline, EmptyStr)) = lower(tag)

\* mutant: the loop keeps the last participant that matches
FirstMatching_keeps_last(ps, name, tag) ==
    LET hits == {i \in DOMAIN ps : SameRiotId(ps[i], name, tag)}
    IN  IF hits = {} THEN 0 ELSE CHOOSE i \in hits : \A j \in hits : i >= j

\* position of the participant the loop returns, 0 when it falls through
FirstMatching(ps, name, tag) ==
    LET hits == {i \in DOMAIN ps : SameRiotId(ps[i], name, tag)}
    IN  IF hits = {} THEN 0 ELSE CHOOSE i \in hits : \A j \in hits : i <= j

\* bot.py: the participant dict, or None (also when "info" is missing,
\* through the bare except)
extract_player_from_match(match, name, tag) ==
    IF ~HasInfo(match) THEN 0
    ELSE FirstMatching(match.participants, name, tag)

\* ------------------------------------------- bot.py compatibility fold
teammate_key(p) ==
    get(p.riotIdGameName, QMark) \o Hash \o get(p.riotIdTagline, QMark)

\* counts[teammate][0] += 1 ; counts[teammate][1] += win, on a dict that keeps
\* insertion order
bump(counts, tm, win) ==
    IF \E i \in DOMAIN counts : counts[i].tm = tm
    THEN [i \in DOMAIN counts |->
            IF counts[i].tm = tm
            THEN [counts[i] EXCEPT !.g = @ + 1, !.w = @ + win]
            ELSE counts[i]]
    ELSE Append(counts, [tm |-> tm, g |-> 1, w |-> win])

RECURSIVE count_participants(_, _, _, _, _, _)
count_participants(counts, ps, i, myIdx, my_team, win) ==
    IF i > Len(ps) THEN counts
    ELSE count_participants(
            IF ps[i].teamId = my_team /\ i # myIdx
            THEN bump(counts, teammate_key(ps[i]), win)
            ELSE counts,
            ps, i + 1, myIdx, my_team, win)

count_match(counts, m, name, tag) ==
    IF m = None \/ ~HasInfo(m) THEN counts
    ELSE LET myIdx == extract_player_from_match(m, name, tag)
         IN  IF myIdx = 0 THEN counts
             ELSE LET my == m.participants[myIdx]
                  IN  count_participants(counts, m.participants, 1, myIdx,
                                         my.teamId, IF my.win THEN 1 ELSE 0)

RECURSIVE count_matches(_, _, _, _)
count_matches(counts, matches, name, tag) ==
    IF matches = <<>> THEN counts
    ELSE count_matches(count_match(counts, Head(matches), name, tag),
                       Tail(matches), name, tag)

win_rate(g, w) == IF g # 0 THEN round(1000 * w, g) ELSE 0

to_rows(counts) ==
    [i \in DOMAIN counts |->
        [tm |-> counts[i].tm, g |-> counts[i].g, w |-> counts[i].w,
         wr |-> win_rate(counts[i].g, counts[i].w)]]

\* key=lambda x: (-x[3], -x[1], x[0]), compared as Python compares tuples
sort_key_less(x, y) ==
    \/ x.wr > y.wr
    \/ x.wr = y.wr /\ x.g > y.g
    \/ x.wr = y.wr /\ x.g = y.g /\ StrLess(x.tm, y.tm)

RECURSIVE insert_row(_, _)
insert_row(sorted, x) ==
    IF sorted = <<>> THEN <<x>>
    ELSE IF sort_key_less(x, Head(sorted)) THEN <<x>> \o sorted
    ELSE <<Head(sorted)>> \o insert_row(Tail(sorted), x)

\* rows.sort(key=...): a stable sort
RECURSIVE rows_sort_from(_, _)
rows_sort_from(done, rows) ==
    IF rows = <<>> THEN done
    ELSE rows_sort_from(insert_row(done, Head(rows)), Tail(rows))

rows_sort(rows) == rows_sort_from(<<>>, rows)

compute_teammate_compat(matches, name, tag) ==
    rows_sort(to_rows(count_matches(<<>>, matches, name, tag)))

\* ------------------------------------------------ final.py aggregation
\* mutant: deaths + 1 in place of max(1, deaths)
kda_ratio_deaths_plus_one(p) == round(100 * (p.kills + p.assists), p.deaths + 1)

kda_ratio(p) == round(100 * (p.kills + p.assists), max(1, p.deaths))

extract_player_stats(match_data, name, tag) ==
    IF match_data = None \/ ~HasInfo(match_data) THEN None
    ELSE LET i == FirstMatching(match_data.participants, name, tag)
         IN  IF i = 0 THEN None
             ELSE LET p == match_data.participants[i]
                  IN  [kind |-> "stats", MatchID |-> match_data.matchId,
                       Kills |-> p.kills, Deaths |-> p.deaths,
                       Assists |-> p.assists, KDA |-> kda_ratio(p),
                       Damage |-> p.totalDamageDealtToChampions,
                       Win |-> p.win]

\* [raised |-> TRUE] is the KeyError of match_data["info"] or of
\* p['riotIdGameName'] / p['riotIdTagline'] on a participant without the key
extract_teammates(match_data, name, tag) ==
    IF ~HasInfo(match_data) THEN [raised |-> TRUE, pairs |-> <<>>]
    ELSE LET ps == match_data.participants
             i == FirstMatching(ps, name, tag)
         IN  IF i = 0 THEN [raised |-> FALSE, pairs |-> <<>>]
             ELSE LET my == ps[i]
                      mates == SelectSeq(ps,
                                 LAMBDA p : p.teamId = my.teamId /\ p # my)
                  IN  IF \E j \in DOMAIN mates :
                             \/ mates[j].riotIdGameName = Absent
                             \/ mates[j].riotIdTagline = Absent
                      THEN [raised |-> TRUE, pairs |-> <<>>]
                      ELSE [raised |-> FALSE,
                            pairs |-> [j \in DOMAIN mates |->
                               [Teammate |-> mates[j].riotIdGameName \o Hash
                                               \o mates[j].riotIdTagline,
                                Win |-> my.win]]]

RECURSIVE collect(_, _, _, _, _)
collect(stats, pairs, files, name, tag) ==
    IF files = <<>> THEN [raised |-> FALSE, stats |-> stats, pairs |-> pairs]
    ELSE LET s == extract_player_stats(Head(files), name, tag)
             t == extract_teammates(Head(files), name, tag)
         IN  IF t.raised
             THEN [raised |-> TRUE, stats |-> <<>>, pairs |-> <<>>]
             ELSE collect(IF s # None THEN Append(stats, s) ELSE stats,
                          pairs \o t.pairs, Tail(files), name, tag)

RECURSIVE count_pairs(_, _)
count_pairs(counts, pairs) ==
    IF pairs = <<>> THEN counts
    ELSE count_pairs(bump(counts, Head(pairs).Teammate,
                          IF Head(pairs).Win THEN 1 ELSE 0),
                     Tail(pairs))

group_key_less(x, y) == StrLess(x.tm, y.tm)

RECURSIVE insert_group(_, _)
insert_group(sorted, x) ==
    IF sorted = <<>> THEN <<x>>
    ELSE IF group_key_less(x, Head(sorted)) THEN <<x>> \o sorted
    ELSE <<Head(sorted)>> \o insert_group(Tail(sorted), x)

RECURSIVE groups_sort_from(_, _)
groups_sort_from(done, rows) ==
    IF rows = <<>> THEN done
    ELSE groups_sort_from(insert_group(done, Head(rows)), Tail(rows))

\* df_team.groupby("Teammate").agg(...).reset_index(): one row per key, keys
\* in sorted order; then the "Win Rate %" column
groupby_teammate(pairs) ==
    groups_sort_from(<<>>, to_rows(count_pairs(<<>>, pairs)))

\* files: the matches of MATCH_FOLDER in the order os.listdir yields them
analyze_all_matches(files, name, tag) ==
    LET c == collect(<<>>, <<>>, files, name, tag)
    IN  IF c.raised THEN [outcome |-> "raised", df |-> <<>>, summary |-> <<>>]
        ELSE IF c.stats = <<>>
        THEN [outcome |-> "none", df |-> <<>>, summary |-> <<>>]
        ELSE IF c.pairs = <<>>
        THEN [outcome |-> "raised", df |-> <<>>, summary |-> <<>>]
        ELSE [outcome |-> "ok", df |-> c.stats,
              summary |-> groupby_teammate(c.pairs)]

\* ------------------------------------------------- bot.py summary metrics
RECURSIVE Sum(_)
Sum(xs) == IF xs = <<>> THEN 0 ELSE Head(xs) + Sum(Tail(xs))

Reverse(xs) == [i \in DOMAIN xs |-> xs[Len(xs) + 1 - i]]

Located(matches, name, tag) ==
    SelectSeq(matches, LAMBDA m : extract_player_from_match(m, name, tag) # 0)

Target(m, name, tag) == m.participants[extract_player_from_match(m, name, tag)]

\* for m in matches[::-1]: ... kdas.append(...); mids_sorted.append(...)
kda_series(matches, name, tag) ==
    LET ms == Located(Reverse(matches), name, tag)
    IN  [kdas |-> [i \in DOMAIN ms |-> kda_ratio(Target(ms[i], name, tag))],
         mids_sorted |-> [i \in DOMAIN ms |-> ms[i].matchId]]

\* mutant: the denominators count every fetched match, located or not
summary_metrics_all_matches(matches, kdas, name, tag) ==
    LET ms == Located(matches, name, tag)
        total == Len(matches)
        wins == Len(SelectSeq(ms, LAMBDA m : Target(m, name, tag).win))
        dmg_sum == Sum([i \in DOMAIN ms |->
                          Target(ms[i], name, tag).totalDamageDealtToChampions])
    IN  [total |-> total,
         avg_kda |-> IF Len(kdas) > 0 THEN round(Sum(kdas), Len(kdas)) ELSE 0,
         wr |-> round(1000 * wins, max(1, total)),
         avg_dmg |-> round(dmg_sum, max(1, total))]

\* total, wins, dmg_sum of the second loop and the three rounded figures
summary_metrics(matches, kdas, name, tag) ==
    LET ms == Located(matches, name, tag)
        total == Len(ms)
        wins == Len(SelectSeq(ms, LAMBDA m : Target(m, name, tag).win))
        dmg_sum == Sum([i \in DOMAIN ms |->
                          Target(ms[i], name, tag).totalDamageDealtToChampions])
    IN  [total |-> total,
         avg_kda |-> IF Len(kdas) > 0 THEN round(Sum(kdas), Len(kdas)) ELSE 0,
         wr |-> round(1000 * wins, max(1, total)),
         avg_dmg |-> round(dmg_sum, max(1, total))]

\* what perform_analysis hands to the chart and writes in the text summary
bot_analysis(matches, name, tag) ==
    LET series == kda_series(matches, name, tag)
        m == summary_metrics(matches, series.kdas, name, tag)
    IN  [kdas |-> series.kdas, mids |-> series.mids_sorted,
         matchCount |-> m.total, avg_kda |-> m.avg_kda, wr |-> m.wr,
         avg_dmg |-> m.avg_dmg,
         team_rows |-> compute_teammate_compat(matches, name, tag)]

\* what run_dashboard shows from a = (df, summary)
dashboard_analysis(a) ==
    LET n == Len(a.df)
        wins == Len(SelectSeq(a.df, LAMBDA s : s.Win))
        kdas == [i \in DOMAIN a.df |-> a.df[i].KDA]
        dmgs == [i \in DOMAIN a.df |-> a.df[i].Damage]
    IN  [kdas |-> kdas,
         mids |-> [i \in DOMAIN a.df |-> a.df[i].MatchID],
         matchCount |-> n,
         avg_kda |-> round(Sum(kdas), n),
         wr |-> round(1000 * wins, n),
         avg_dmg |-> round(Sum(dmgs), n),
         team_rows |-> a.summary]

NoResult ==
    [kdas |-> <<>>, mids |-> <<>>, matchCount |-> 0, avg_kda |-> 0, wr |-> 0,
     avg_dmg |-> 0, team_rows |-> <<>>]

\* ------------------------------------------------- the upstream's answers
nA == <<97>>
nAU == <<65>>
nB == <<98>>
nBU == <<66>>
nC == <<99>>
tag1 == <<49>>

\* what a match-detail call can answer with for a match id, beside a failure:
\* recorded games seen from the players "a#1" and "b#1"
MatchShapes == <<
    \* a wins with b and B beside them, K/D/A 5/0/3
    [dur |-> 1800, ps |-> << P(nA, tag1, 100, TRUE, 5, 0, 3, 200),
                             P(nB, tag1, 100, TRUE, 1, 1, 1, 100),
                             P(nBU, tag1, 100, TRUE, 0, 2, 0, 50),
                             P(nC, tag1, 200, FALSE, 2, 3, 2, 80) >>],
    \* a loses beside a participant that carries no Riot id
    [dur |-> 1500, ps |-> << P(nC, tag1, 200, TRUE, 4, 1, 0, 90),
                             P(nA, tag1, 100, FALSE, 1, 2, 1, 100),
                             P(Absent, Absent, 100, FALSE, 0, 5, 2, 30) >>],
    \* a, listed as "A", wins with c
    [dur |-> 1200, ps |-> << P(nAU, tag1, 200, TRUE, 3, 3, 3, 150),
                             P(nC, tag1, 200, TRUE, 2, 2, 2, 60) >>],
    \* a game of c alone: neither a nor b took part
    [dur |-> 900,  ps |-> << P(nC, tag1, 100, TRUE, 9, 0, 0, 300) >>],
    \* a wins beside two participants that carry no Riot id
    [dur |-> 600,  ps |-> << P(nA, tag1, 100, TRUE, 2, 3, 2, 50),
                             P(Absent, Absent, 100, TRUE, 0, 0, 0, 0),
                             P(Absent, Absent, 100, TRUE, 1, 0, 0, 10) >>],
    \* a zero-length game that a and b lose; the payload lists a twice
    [dur |-> 0,    ps |-> << P(nA, tag1, 200, FALSE, 0, 1, 0, 20),
                             P(nB, tag1, 200, FALSE, 1, 3, 1, 40),
                             P(nA, tag1, 200, FALSE, 0, 1, 0, 20) >> ]
>>

Bodies(mid) ==
    {Match(mid, MatchShapes[k].dur, MatchShapes[k].ps) : k \in DOMAIN MatchShapes}
        \cup {NoInfo}

MatchIds == 1..MaxIds

\* a listing answers newest first: strictly descending ids, at most n of them
RECURSIVE Descending(_)
Descending(ids) ==
    Len(ids) <= 1 \/ (ids[1] > ids[2] /\ Descending(Tail(ids)))

Listings(n) ==
    {ids \in UNION {[1..k -> MatchIds] : k \in 1..n} : Descending(ids)}

ReqNames == {nA, nB}

\* ------------------------------------------------------------------ state
Regions == <<"americas", "europe", "asia", "sea">>

NoPlayer == P(Absent, Absent, 0, FALSE, 0, 0, 0, 0)

NoRoast == [kind |-> "none", kills |-> 0, deaths |-> 0, assists |-> 0]

VARIABLES
    app,        \* "bot" (bot.py) or "dashboard" (final.py): the running program
    folder,     \* final.py: MATCH_FOLDER, match id -> stored match (None: no file)
    mode,       \* "roast" or "analyze"
    name, tag,  \* the request's Riot id
    count,      \* the count passed to the listing call
    pc,         \* position of the request's handler
    shard,      \* index in Regions of the next shard the current pass probes
    probed,     \* shards queried by the current probing pass, in order
                \* (a pass starts at shard 1 with an empty log)
    answered,   \* what the last probe of a pass was answered with
    puuid,      \* TRUE once the identity lookup gave a player id
    region,     \* shard returned by the last finished pass ("none": None)
    match_ids,  \* ids of the listing
    region2,    \* bot.py roast: shard of the second listing
    last10,     \* bot.py roast: ids of the second listing
    fetched,    \* ids for which a match-detail call was issued, in order
    received,   \* what the match-detail calls of the request's loop answered
    matches,    \* bot.py: the list the fetch loop builds
    match,      \* roast: what the call for the latest match answered
    player,     \* roast: the target's participant of the latest match
    duration,   \* roast: gameDuration of the latest match, in seconds
    outcome,    \* how the request ended ("" while it runs)
    result,     \* analyze: what is handed to the chart and the summary
    roast       \* roast: the text delivered

vars == <<app, folder, mode, name, tag, count, pc, shard, probed, answered,
          puuid,
          region, match_ids, region2, last10, fetched, received, matches,
          match, player, duration, outcome, result, roast>>

reqVars == <<mode, name, tag, count>>

EmptyFolder == [mid \in MatchIds |-> None]

Init ==
    /\ app \in {"bot", "dashboard"}
    /\ folder = EmptyFolder
    /\ mode = "analyze" /\ name = nA /\ tag = tag1 /\ count = MaxIds
    /\ pc = "idle"
    /\ shard = 1 /\ probed = <<>> /\ answered = "none"
    /\ puuid = FALSE /\ region = "none"
    /\ match_ids = <<>> /\ region2 = "none" /\ last10 = <<>>
    /\ fetched = <<>> /\ received = <<>> /\ matches = <<>>
    /\ match = None /\ player = NoPlayer /\ duration = 0
    /\ outcome = "" /\ result = NoResult /\ roast = NoRoast

\* the handler returns: the request is over
Finish(how) ==
    /\ pc' = "done"
    /\ outcome' = how

\* get_tag / menu_callback (bot), the two buttons (dashboard): a request starts
\* with fresh locals, any number of times; MATCH_FOLDER stays as the earlier
\* requests left it. The bot asks for 10, 20 or 30 matches, the dashboard for
\* 10 (MaxIds here), the roast for the latest one
StartRequest ==
    /\ pc \in {"idle", "done"}
    /\ mode' \in {"roast", "analyze"}
    /\ name' \in ReqNames
    /\ tag' = tag1
    /\ count' = IF mode' = "roast" THEN 1 ELSE MaxIds
    /\ pc' = "detect"
    /\ shard' = 1 /\ probed' = <<>> /\ answered' = "none"
    /\ puuid' = FALSE /\ region' = "none"
    /\ match_ids' = <<>> /\ region2' = "none" /\ last10' = <<>>
    /\ fetched' = <<>> /\ received' = <<>> /\ matches' = <<>>
    /\ match' = None /\ player' = NoPlayer /\ duration' = 0
    /\ outcome' = "" /\ result' = NoResult /\ roast' = NoRoast
    /\ UNCHANGED <<app, folder>>

\* detect_region: one identity lookup on Regions[shard].
\*   "fail"    transport error, timeout, non-200 status or a body that is no JSON
\*   "found"   200 with a puuid
\*   "nopuuid" 200 with a JSON object without "puuid"
\* mutant: a success is recorded but the loop goes on to the remaining shards
detect_region_keep_probing ==
    /\ puuid' = TRUE
    /\ region' = Regions[shard]
    /\ IF shard < Len(Regions)
       THEN shard' = shard + 1 /\ UNCHANGED pc
       ELSE shard' = 1 /\ pc' = "list"
    /\ UNCHANGED outcome

detect_region_found ==
    /\ puuid' = TRUE
    /\ region' = Regions[shard]
    /\ pc' = "list"
    /\ shard' = 1
    /\ UNCHANGED outcome

detect_region_next ==
    /\ UNCHANGED <<puuid, region>>
    /\ IF shard < Len(Regions)
       THEN shard' = shard + 1 /\ UNCHANGED <<pc, outcome>>
       ELSE shard' = shard /\ Finish("NotFound")

\* bot.py returns (region, data.get("puuid")) = (region, None): "not puuid"
detect_region_none ==
    /\ UNCHANGED <<puuid, shard>>
    /\ region' = Regions[shard]
    /\ Finish("NotFound")

detect_region(answer) ==
    CASE answer = "found" -> detect_region_found
      [] answer = "fail" -> detect_region_next
      [] answer = "nopuuid" ->
            IF app = "bot" THEN detect_region_none ELSE detect_region_next

DetectProbe ==
    /\ pc = "detect"
    /\ probed' = Append(probed, Regions[shard])
    /\ \E answer \in {"fail", "found", "nopuuid"} :
         answered' = answer /\ detect_region(answer)
    /\ UNCHANGED <<app, folder, reqVars, match_ids, region2, last10,
                   fetched, received, matches,
                   match, player, duration, result, roast>>

\* get_match_ids_anywhere / get_match_ids: one listing call on Regions[shard].
\*   ok = FALSE          transport error, non-200 status or a body that is no JSON
\*   ok, ids = <<>>      200 with an empty list
\*   ok, ids             200 with at most `count` ids, newest first
ListAnswers(n) ==
    {[ok |-> FALSE, ids |-> <<>>]}
        \cup {[ok |-> TRUE, ids |-> ids] : ids \in {<<>>} \cup Listings(n)}

\* mutant: the status alone decides, an empty list counts as found
IsIds_status_only(answer) == answer.ok

\* r.status_code == 200 and r.json()
IsIds(answer) == answer.ok /\ answer.ids # <<>>

AnswerKind(answer) ==
    IF ~answer.ok THEN "fail" ELSE IF answer.ids = <<>> THEN "empty" ELSE "ids"

get_match_ids_found(ids) ==
    /\ region' = Regions[shard]
    /\ match_ids' = ids
    /\ pc' = IF mode = "roast" THEN "fetch_latest" ELSE "fetch"
    /\ shard' = 1
    /\ UNCHANGED outcome

get_match_ids_next ==
    IF shard < Len(Regions)
    THEN shard' = shard + 1 /\ UNCHANGED <<region, match_ids, pc, outcome>>
    ELSE /\ shard' = shard
         /\ region' = "none"
         /\ match_ids' = <<>>
         /\ Finish("EmptyResult")

get_match_ids_anywhere(answer) ==
    IF IsIds(answer) THEN get_match_ids_found(answer.ids) ELSE get_match_ids_next

ListProbe ==
    /\ pc = "list"
    /\ probed' = Append(IF shard = 1 THEN <<>> ELSE probed, Regions[shard])
    /\ \E answer \in ListAnswers(count) :
         answered' = AnswerKind(answer) /\ get_match_ids_anywhere(answer)
    /\ UNCHANGED <<app, folder, reqVars, puuid, region2, last10, fetched,
                   received, matches, match, player, duration, result, roast>>

\* get_match_data: None on a transport error, a non-200 status, a body that is
\* no JSON; a JSON body that is falsy ({}) is dropped by every caller like None
MatchAnswers(mid) == {None} \cup Bodies(mid)

\* mutant: the loop asks for the first id again instead of moving on
NextId_refetches_first(ids) == ids[1]

NextId(ids) == ids[Len(received) + 1]

\* mutant: the loop breaks at the first failed fetch
keep_fetching_until_failure(m, done, total) == m # None /\ done < total

\* "for mid in match_ids": the loop goes on to the next id whatever the call
\* for this one answered
keep_fetching(m, done, total) == done < total

\* the analyze loop, one id per step:
\*   bot.py        m = get_match_data(region, mid); if m: matches.append(m)
\*   final.py      md = get_match_data(region, mid); if md: json.dump(md, file)
FetchMatch ==
    /\ pc = "fetch"
    /\ LET mid == NextId(match_ids)
       IN  /\ fetched' = Append(fetched, mid)
           /\ \E m \in MatchAnswers(mid) :
                /\ received' = Append(received, m)
                /\ IF app = "bot"
                   THEN /\ matches' = IF m # None THEN Append(matches, m)
                                      ELSE matches
                        /\ UNCHANGED folder
                   ELSE /\ folder' = IF m # None THEN [folder EXCEPT ![mid] = m]
                                     ELSE folder
                        /\ UNCHANGED matches
                /\ pc' = IF keep_fetching(m, Len(received'), Len(match_ids))
                         THEN "fetch"
                         ELSE IF app = "bot" THEN "summoner" ELSE "aggregate"
    /\ UNCHANGED <<app, reqVars, shard, probed, answered, puuid, region, match_ids,
                   region2, last10,
                   match, player, duration, outcome, result, roast>>

\* get_summoner_by_puuid and the profile photo: whatever the call answers, the
\* handler goes on with the same data
GetSummoner ==
    /\ pc = "summoner"
    /\ pc' = IF mode = "analyze" THEN "aggregate" ELSE "narrative"
    /\ UNCHANGED <<app, folder, reqVars, shard, probed, answered, puuid, region,
                   match_ids, region2, last10, fetched, received, matches,
                   match, player, duration, outcome, result, roast>>

RECURSIVE Orders(_)
Orders(S) ==
    IF S = {} THEN {<<>>}
    ELSE UNION {{<<x>> \o rest : rest \in Orders(S \ {x})} : x \in S}

Stored == {mid \in MatchIds : folder[mid] # None}

\* mutant: like the dashboard, the bot ends with an error when no fetched
\* match holds the target
AggregateBot_rejects_empty ==
    /\ pc = "aggregate" /\ app = "bot"
    /\ IF Located(matches, name, tag) = <<>>
       THEN result' = NoResult /\ Finish("InvalidData")
       ELSE result' = bot_analysis(matches, name, tag) /\ Finish("ok")
    /\ UNCHANGED <<app, folder, reqVars, shard, probed, answered, puuid, region,
                   match_ids, region2, last10, fetched, received, matches,
                   match, player, duration, roast>>

\* bot.py: lines 459-509 of perform_analysis
AggregateBot ==
    /\ pc = "aggregate" /\ app = "bot"
    /\ result' = bot_analysis(matches, name, tag)
    /\ Finish("ok")
    /\ UNCHANGED <<app, folder, reqVars, shard, probed, answered, puuid, region,
                   match_ids, region2, last10, fetched, received, matches,
                   match, player, duration, roast>>

\* final.py: analyze_all_matches over every file of MATCH_FOLDER, in the order
\* os.listdir gives (arbitrary), then the summary of run_dashboard
AggregateDashboard ==
    /\ pc = "aggregate" /\ app = "dashboard"
    /\ \E order \in Orders(Stored) :
         LET files == [i \in DOMAIN order |-> folder[order[i]]]
             a == analyze_all_matches(files, name, tag)
         IN  CASE a.outcome = "raised" ->
                    result' = NoResult /\ Finish("raised")
               [] a.outcome = "none" ->
                    result' = NoResult /\ Finish("InvalidData")
               [] a.outcome = "ok" ->
                    result' = dashboard_analysis(a) /\ Finish("ok")
    /\ UNCHANGED <<app, folder, reqVars, shard, probed, answered, puuid, region,
                   match_ids, region2, last10, fetched, received, matches,
                   match, player, duration, roast>>

\* the divisor of a per-minute metric. gameDuration is a whole number of
\* seconds; final.py divides by gameDuration/60 as it is
minutes(sec) == [floor |-> FALSE, sec |-> sec]

\* bot.py: max(1e-9, duration_min); a duration of one second or more is above
\* the floor, a zero-length one is replaced by it
floored_minutes(sec) ==
    IF sec >= 1 THEN minutes(sec) ELSE [floor |-> TRUE, sec |-> 0]

\* x / d raises ZeroDivisionError when d is zero
ZeroDivision(d) == ~d.floor /\ d.sec = 0

\* the roast's only match: get_match_data(region, match_ids[0]), the two early
\* returns, then the duration. final.py goes on to build its stats dict, where
\* visionScore/duration and damage/duration raise ZeroDivisionError on a
\* zero-length match
FetchLatest ==
    /\ pc = "fetch_latest"
    /\ fetched' = Append(fetched, match_ids[1])
    /\ \E m \in MatchAnswers(match_ids[1]) :
         /\ match' = m
         /\ IF m = None \/ ~HasInfo(m)
            THEN Finish("FetchFailed") /\ UNCHANGED <<player, duration, shard>>
            ELSE LET i == FirstMatching(m.participants, name, tag)
                 IN  IF i = 0
                     THEN /\ Finish("NotInMatch")
                          /\ UNCHANGED <<player, duration, shard>>
                     ELSE /\ player' = m.participants[i]
                          /\ duration' = m.gameDuration
                          /\ shard' = 1
                          /\ IF app = "bot"
                             THEN pc' = "list2" /\ UNCHANGED outcome
                             ELSE IF ZeroDivision(minutes(m.gameDuration))
                             THEN Finish("raised")
                             ELSE pc' = "narrative" /\ UNCHANGED outcome
    /\ UNCHANGED <<app, folder, reqVars, probed, answered, puuid, region,
                   match_ids, region2, last10, received, matches, result, roast>>

\* bot.py roast: region2, last10 = get_match_ids_anywhere(puuid, count=10);
\* (None, []) leaves nothing to fetch
ListProbe2 ==
    /\ pc = "list2"
    /\ probed' = Append(IF shard = 1 THEN <<>> ELSE probed, Regions[shard])
    /\ \E answer \in ListAnswers(MaxIds) :
         /\ answered' = AnswerKind(answer)
         /\ IF IsIds(answer)
            THEN /\ region2' = Regions[shard]
                 /\ last10' = answer.ids
                 /\ pc' = "fetch2"
                 /\ shard' = 1
            ELSE IF shard < Len(Regions)
            THEN shard' = shard + 1 /\ UNCHANGED <<region2, last10, pc>>
            ELSE /\ shard' = shard
                 /\ region2' = "none"
                 /\ last10' = <<>>
                 /\ pc' = "summoner"
    /\ UNCHANGED <<app, folder, reqVars, puuid, region, match_ids, fetched,
                   received, matches,
                   match, player, duration, outcome, result, roast>>

\* bot.py roast: matches = [get_match_data(region2, mid) for mid in last10],
\* one id per step; a failed fetch stays in the list as None
FetchMatch2 ==
    /\ pc = "fetch2"
    /\ LET mid == NextId(last10)
       IN  /\ fetched' = Append(fetched, mid)
           /\ \E m \in MatchAnswers(mid) :
                /\ received' = Append(received, m)
                /\ matches' = Append(matches, m)
                /\ pc' = IF keep_fetching(m, Len(received'), Len(last10))
                         THEN "fetch2" ELSE "summoner"
    /\ UNCHANGED <<app, folder, reqVars, shard, probed, answered, puuid, region,
                   match_ids, region2, last10, match, player, duration, outcome,
                   result, roast>>

\* the narrative collaborator: bedrock_generate / call_bedrock answers with
\* the text of the model's reply, which may be the empty string, or with its
\* "not configured" or "error" notice
NarrativeAnswers == {"text", "empty", "unconfigured", "error"}

\* bot.py: team_rows and the prompt, then the local fallback when the answer
\* starts with one of the two notices
local_fallback(p) ==
    [kind |-> "fallback", kills |-> p.kills, deaths |-> p.deaths,
     assists |-> p.assists]

\* an empty reply starts with neither notice, and range(0, 0, CHUNK) sends no
\* chunk of it
bot_roast_text(answer, p) ==
    IF answer \in {"unconfigured", "error"} THEN local_fallback(p)
    ELSE IF answer = "empty" THEN [NoRoast EXCEPT !.kind = "empty"]
    ELSE [NoRoast EXCEPT !.kind = "llm"]

\* final.py: st.write(roast) of whatever call_bedrock returned
dashboard_roast_text(answer) ==
    IF answer \in {"unconfigured", "error", "empty"}
    THEN [NoRoast EXCEPT !.kind = answer]
    ELSE [NoRoast EXCEPT !.kind = "llm"]

\* bot.py builds its prompt here, with vision per minute over the floored
\* duration; final.py built its stats before (FetchLatest)
Narrative ==
    /\ pc = "narrative"
    /\ IF app = "bot" /\ ZeroDivision(floored_minutes(duration))
       THEN roast' = NoRoast /\ result' = NoResult /\ Finish("raised")
       ELSE /\ \E answer \in NarrativeAnswers :
                 roast' = IF app = "bot" THEN bot_roast_text(answer, player)
                          ELSE dashboard_roast_text(answer)
            /\ result' = IF app = "bot"
                         THEN [NoResult EXCEPT
                                 !.team_rows =
                                    compute_teammate_compat(matches, name, tag)]
                         ELSE NoResult
            /\ Finish("ok")
    /\ UNCHANGED <<app, folder, reqVars, shard, probed, answered, puuid, region,
                   match_ids, region2, last10, fetched, received, matches,
                   match, player, duration>>

Next ==
    \/ StartRequest
    \/ DetectProbe
    \/ ListProbe
    \/ FetchMatch
    \/ FetchLatest
    \/ ListProbe2
    \/ FetchMatch2
    \/ GetSummoner
    \/ AggregateBot
    \/ AggregateDashboard
    \/ Narrative

Spec == Init /\ [][Next]_vars

\* ================================================================= claims
Done(how) == pc = "done" /\ outcome = how

RegionIndex(r) == CHOOSE i \in DOMAIN Regions : Regions[i] = r

IsPrefix(xs, ys) == Len(xs) <= Len(ys) /\ xs = SubSeq(ys, 1, Len(xs))

\* the matches the aggregation of the finished request read: the bot's list,
\* the dashboard's folder
Aggregated ==
    IF app = "bot" THEN matches
    ELSE LET o == CHOOSE o \in Orders(Stored) : TRUE
         IN  [i \in DOMAIN o |-> folder[o[i]]]

IsLocated(m) == extract_player_from_match(m, name, tag) # 0

\* positions of the participants of m on the target's team, the target's own
\* position left out
MatePositions(m) ==
    LET i == extract_player_from_match(m, name, tag)
    IN  {j \in DOMAIN m.participants :
            j # i /\ m.participants[j].teamId = m.participants[i].teamId}

SharedTeam(m, tm) ==
    /\ IsLocated(m)
    /\ \E j \in MatePositions(m) : teammate_key(m.participants[j]) = tm

TargetWon(m) == m.participants[extract_player_from_match(m, name, tag)].win

\* r is not after s in the order (winRatePct desc, games desc, identity asc)
RowNotAfter(r, s) ==
    \/ r.wr > s.wr
    \/ r.wr = s.wr /\ r.g > s.g
    \/ r.wr = s.wr /\ r.g = s.g /\ ~StrLess(s.tm, r.tm)

\* C1: the compatibility table of a finished request is ordered by winRatePct
\* descending, then games descending, then teammate identity ascending: every
\* row is not after its successor in that order.
C1_CompatOrdered ==
    Done("ok") =>
        \A i \in 1..(Len(result.team_rows) - 1) :
            RowNotAfter(result.team_rows[i], result.team_rows[i + 1])

\* C2: every compatibility row has games >= 1, 0 <= wins <= games, winRatePct
\* equal to wins/games*100 rounded to one decimal (between 0.0 and 100.0), and
\* wins equal to the number of aggregated matches in which that teammate shared
\* the target's team and the target won.
C2_RowsCountMatches ==
    Done("ok") =>
        \A i \in DOMAIN result.team_rows :
            LET r == result.team_rows[i]
            IN  /\ r.g >= 1 /\ 0 <= r.w /\ r.w <= r.g
                /\ 0 <= r.wr /\ r.wr <= 1000
                /\ 2 * (r.g * r.wr - 1000 * r.w) <= r.g
                /\ 2 * (1000 * r.w - r.g * r.wr) <= r.g
                /\ r.w = Cardinality({k \in DOMAIN Aggregated :
                            /\ SharedTeam(Aggregated[k], r.tm)
                            /\ TargetWon(Aggregated[k])})

\* C3: a match in which no participant matches the target contributes to no
\* aggregate: the KDA series, matchCount, the averages, the win rate and the
\* compatibility table of a finished request are those of the same input with
\* every such match removed.
C3_UnlocatedContributeNothing ==
    Done("ok") =>
        IF app = "bot"
        THEN IF mode = "analyze"
             THEN result = bot_analysis(Located(matches, name, tag), name, tag)
             ELSE result.team_rows =
                    compute_teammate_compat(Located(matches, name, tag), name, tag)
        ELSE mode = "analyze" =>
               \E o \in Orders({mid \in Stored : IsLocated(folder[mid])}) :
                   result = dashboard_analysis(analyze_all_matches(
                                [i \in DOMAIN o |-> folder[o[i]]], name, tag))

\* a finished analysis whose input held a match without the target next to
\* matches with the target
C3_Witness ==
    /\ Done("ok") /\ mode = "analyze"
    /\ \E k \in DOMAIN Aggregated :
          HasInfo(Aggregated[k]) /\ ~IsLocated(Aggregated[k])
    /\ \E k \in DOMAIN Aggregated : IsLocated(Aggregated[k])
    /\ result.matchCount >= 1

\* C4: the identity pass probes the shards one at a time in the order
\* americas, europe, asia, sea and returns at the first shard whose lookup
\* succeeds: when it has returned shard i, exactly the shards 1..i were
\* queried, and no identity lookup follows a success.
C4_StopAtFirstSuccess ==
    /\ pc = "detect" => IsPrefix(probed, Regions) /\ shard = Len(probed) + 1
    /\ puuid => pc # "detect"
    /\ (pc = "list" /\ shard = 1) =>
          /\ puuid
          /\ IsPrefix(probed, Regions)
          /\ Len(probed) = RegionIndex(region)

\* the second of the four shards succeeded: two lookups, none on asia or sea
C4_Witness ==
    /\ pc = "list" /\ shard = 1
    /\ region = "europe" /\ probed = <<"americas", "europe">>

\* C5: a request ends with "Player not found" only after all four shards were
\* queried by the identity lookup.
C5_NotFoundAfterAllShards ==
    Done("NotFound") => probed = Regions

\* the first listing pass has returned a shard
ListReturned ==
    \/ pc \in {"fetch", "fetch_latest", "list2", "fetch2", "summoner",
               "aggregate", "narrative"}
    \/ pc = "done" /\ outcome \notin {"NotFound", "EmptyResult"}

\* bot.py roast: the second listing pass is over
List2Over == mode = "roast" /\ app = "bot" /\ pc \in {"summoner", "narrative", "done"}
                /\ outcome \notin {"NotFound", "EmptyResult", "FetchFailed", "NotInMatch"}

\* C6: the listing pass never returns a shard whose listing call answered with
\* an empty id list: after a 200 with no ids the pass is at the next shard or
\* has ended with (None, []); it returns a shard only with ids, the shard it
\* queried last; and it returns (None, []) only after all four shards.
C6_EmptyListingRejected ==
    /\ answered = "empty" =>
          \/ pc \in {"list", "list2"} /\ shard > 1
          \/ Done("EmptyResult")
          \/ List2Over /\ region2 = "none"
    /\ ListReturned => match_ids # <<>> /\ region \in {Regions[i] : i \in DOMAIN Regions}
    /\ pc \in {"fetch", "fetch_latest"} =>
          IsPrefix(probed, Regions) /\ region = probed[Len(probed)]
    /\ Done("EmptyResult") => probed = Regions /\ match_ids = <<>> /\ region = "none"
    /\ pc = "fetch2" => last10 # <<>> /\ region2 = probed[Len(probed)]
    /\ (List2Over /\ region2 = "none") => probed = Regions /\ last10 = <<>>

\* a shard answered 200 with no ids and the pass went on to the next shard
C6_Witness ==
    pc = "list" /\ answered = "empty" /\ shard = 2 /\ probed = <<"americas">>

BotAnalyze == app = "bot" /\ mode = "analyze"

LoopOver ==
    \/ pc \in {"summoner", "aggregate"}
    \/ pc = "done" /\ outcome \notin {"NotFound", "EmptyResult"}

Fetched(ms) == SelectSeq(ms, LAMBDA m : m # None)

\* C7: in the bot's analyze flow a failed match-detail fetch is dropped and the
\* loop goes on: a call is issued for every id of the listing, in order, the
\* list of matches is exactly the answers that were not failures, and the
\* request ends with the aggregates over them, never with an error.
C7_FetchFailureAbsorbed ==
    BotAnalyze =>
        /\ pc = "fetch" => IsPrefix(fetched, match_ids) /\ Len(fetched) < Len(match_ids)
        /\ LoopOver => fetched = match_ids
        /\ Len(received) = Len(fetched)
        /\ matches = Fetched(received)
        /\ pc = "done" => outcome \in {"NotFound", "EmptyResult", "ok"}
        /\ Done("ok") => result = bot_analysis(Fetched(received), name, tag)

\* the first fetch failed, the second id was still fetched, and the request
\* finished with the one match
C7_Witness ==
    /\ BotAnalyze /\ Done("ok")
    /\ Len(received) = 2 /\ received[1] = None /\ IsLocated(received[2])
    /\ result.matchCount = 1

\* C8: the reported matchCount equals the number of matches fetched by this
\* request in which the target was extracted, and never exceeds the requested
\* count.
C8_MatchCountIsExtractions ==
    (Done("ok") /\ mode = "analyze") =>
        /\ result.matchCount = Len(Located(received, name, tag))
        /\ result.matchCount <= count

\* C9: the KDA series has one entry per fetched match in which the target was
\* extracted, no placeholder for the others, in oldest-first order: the
\* reverse of the newest-first listing order, restricted to the extractions.
C9_SeriesOldestFirst ==
    (Done("ok") /\ mode = "analyze") =>
        LET ms == Located(Reverse(received), name, tag)
        IN  /\ Len(result.kdas) = result.matchCount
            /\ result.kdas = [i \in DOMAIN ms |-> kda_ratio(Target(ms[i], name, tag))]
            /\ result.mids = [i \in DOMAIN ms |-> ms[i].matchId]

RoastDelivered == mode = "roast" /\ Done("ok")

\* C11: a roast request that reached narrative generation delivers a
\* non-empty roast text whatever the collaborator answered: the model's reply,
\* or, after an "unconfigured" or "error" notice, the local fallback with the
\* player's kills, deaths and assists; never a notice and never nothing.
C11_RoastTextOrFallback ==
    /\ pc = "narrative" => mode = "roast"
    /\ RoastDelivered =>
          /\ roast.kind \in {"llm", "fallback"}
          /\ roast.kind = "fallback" => roast = local_fallback(player)

\* the roast located its target in a latest match of zero length
ZeroLengthRoast == mode = "roast" /\ player # NoPlayer /\ duration = 0

\* C12: a roast whose latest match lasted 0 seconds does not fail on the
\* per-minute metrics: the request goes on to narrative generation and never
\* ends with a division by zero.
C12_ZeroDurationProceeds ==
    ZeroLengthRoast =>
        /\ outcome # "raised"
        /\ pc = "done" => outcome = "ok" /\ roast # NoRoast

\* the performance behind entry i of the KDA series of a finished analysis:
\* the target's participant in the match the entry is labelled with
Performance(i) ==
    LET m == IF app = "bot"
             THEN CHOOSE m \in {matches[k] : k \in DOMAIN matches} :
                      HasInfo(m) /\ m.matchId = result.mids[i]
             ELSE folder[result.mids[i]]
    IN  Target(m, name, tag)

Analyzed == Done("ok") /\ mode = "analyze"

\* C13 as stated: every derivedKDA (in hundredths) is exactly
\* (kills + assists) / max(1, deaths).
C13_ExactQuotient ==
    Analyzed =>
        \A i \in DOMAIN result.kdas :
            LET p == Performance(i)
            IN  result.kdas[i] * max(1, p.deaths) = 100 * (p.kills + p.assists)

\* C13, amended: every derivedKDA is (kills + assists) / max(1, deaths)
\* rounded to two decimals, so within half a hundredth of the quotient; with
\* deaths = 0 it is kills + assists exactly; and it is never negative.
C13_RoundedQuotient ==
    Analyzed =>
        \A i \in DOMAIN result.kdas :
            LET p == Performance(i)
                den == max(1, p.deaths)
                num == 100 * (p.kills + p.assists)
                kda == result.kdas[i]
            IN  /\ 2 * (kda * den - num) <= den
                /\ 2 * (num - kda * den) <= den
                /\ p.deaths = 0 => kda = num
                /\ kda >= 0

\* one series with the 5/0/3 performance at 8.00 and a performance whose
\* quotient has more than two decimals
C13_Witness ==
    /\ Analyzed
    /\ \E i \in DOMAIN result.kdas :
          LET p == Performance(i)
          IN  p.kills = 5 /\ p.assists = 3 /\ p.deaths = 0 /\ result.kdas[i] = 800
    /\ \E i \in DOMAIN result.kdas :
          LET p == Performance(i)
          IN  (100 * (p.kills + p.assists)) % max(1, p.deaths) # 0

\* two strings are equal ignoring letter case: same length, and position by
\* position the same code point or the two cases of one letter
EqIgnoringCase(s, t) ==
    /\ Len(s) = Len(t)
    /\ \A i \in DOMAIN s :
          \/ s[i] = t[i]
          \/ s[i] \in 65..90 /\ t[i] = s[i] + 32
          \/ t[i] \in 65..90 /\ s[i] = t[i] + 32

\* participant p carries the requested Riot id, up to letter case
IsTarget(p) ==
    /\ p.riotIdGameName # Absent /\ EqIgnoringCase(p.riotIdGameName, name)
    /\ p.riotIdTagline # Absent /\ EqIgnoringCase(p.riotIdTagline, tag)

TargetPositions(m) ==
    IF HasInfo(m) THEN {j \in DOMAIN m.participants : IsTarget(m.participants[j])}
    ELSE {}

\* the roast has run its extraction on the latest match
Extracted ==
    /\ mode = "roast" /\ HasInfo(match)
    /\ pc \in {"list2", "fetch2", "summoner", "narrative", "done"}

\* C14: player extraction returns the first participant, in list order, whose
\* game name and tag line equal the requested ones ignoring letter case, and
\* null exactly when there is none (a record without participant data
\* included): the roast's player is the first such participant of its latest
\* match and the roast ends with "not in match" exactly when there is none;
\* an analysis counts exactly the aggregated matches that hold one.
C14_FirstCaseInsensitiveMatch ==
    /\ Extracted =>
          /\ Done("NotInMatch") <=> TargetPositions(match) = {}
          /\ ~Done("NotInMatch") =>
                \E j \in TargetPositions(match) :
                    /\ \A i \in TargetPositions(match) : j <= i
                    /\ player = match.participants[j]
                    /\ IsTarget(player)
    /\ Analyzed =>
          result.matchCount =
              Cardinality({k \in DOMAIN Aggregated :
                              TargetPositions(Aggregated[k]) # {}})

\* b#1 is roasted on a match that lists "b" before "B": the player is the
\* first of the two
C14_Witness ==
    /\ Extracted /\ ~Done("NotInMatch")
    /\ Cardinality(TargetPositions(match)) = 2
    /\ \E i, j \in TargetPositions(match) :
          /\ i < j
          /\ match.participants[i] # match.participants[j]
          /\ player = match.participants[i]

\* the analyses final.py would give from the files this request wrote alone,
\* in any listing order of them
OwnAnalyses ==
    LET own == {k \in DOMAIN received : received[k] # None}
    IN  {analyze_all_matches([i \in DOMAIN o |-> received[o[i]]], name, tag) :
            o \in Orders(own)}

\* C15: the result of a request depends only on its inputs and on the
\* upstream responses received during it: the performances, the compatibility
\* table and the summary metrics of a finished request are those computed
\* from this request's own answers, whatever earlier requests fetched or
\* wrote.
C15_ResultFromOwnResponses ==
    /\ Analyzed =>
          IF app = "bot"
          THEN result = bot_analysis(Fetched(received), name, tag)
          ELSE \E a \in OwnAnalyses :
                  a.outcome = "ok" /\ result = dashboard_analysis(a)
    /\ (app = "dashboard" /\ mode = "analyze" /\ Done("InvalidData")) =>
          \E a \in OwnAnalyses : a.outcome = "none"
    /\ (RoastDelivered /\ app = "bot") =>
          result.team_rows = compute_teammate_compat(received, name, tag)

NoRepeat(xs) == \A i, j \in DOMAIN xs : xs[i] = xs[j] => i = j

\* the ids of the request's fetch loop: the listing of an analysis, the
\* second listing of the bot's roast
LoopIds == IF mode = "roast" THEN last10 ELSE match_ids

\* the roast's call for its latest match, once it was issued
LatestCall == IF mode = "roast" /\ fetched # <<>> THEN <<match_ids[1]>> ELSE <<>>

\* every probing pass queries the shards in order, each at most once, and
\* every answered call of the fetch loop was for the next id of its listing
OnePassInOrder ==
    /\ IsPrefix(probed, Regions)
    /\ NoRepeat(probed)
    /\ Len(received) <= Len(LoopIds)
    /\ fetched = LatestCall \o SubSeq(LoopIds, 1, Len(received))

\* C16 as stated: no retry and no overlap within a request: each pass queries
\* every shard at most once, and the match-detail call is issued at most once
\* per match id, in listing order, one call after the other.
C16_OnceEach ==
    OnePassInOrder /\ NoRepeat(fetched)

\* C16, amended: each pass queries every shard at most once, in order; each
\* fetch loop issues the match-detail call once per id of its listing, in
\* listing order, one call after the other, failed or not. The bot's roast
\* issues one more call for its latest match before the loop, so that id is
\* the only one a request can ask for twice.
C16_OncePerLoop ==
    /\ OnePassInOrder
    /\ NoRepeat(SubSeq(LoopIds, 1, Len(received)))
    /\ \A i, j \in DOMAIN fetched :
          (fetched[i] = fetched[j] /\ i < j) =>
              /\ app = "bot" /\ mode = "roast"
              /\ i = 1 /\ fetched[1] = match_ids[1]
    /\ LoopOver /\ mode = "analyze" => fetched = match_ids
    /\ List2Over => fetched = LatestCall \o last10

\* a finished roast of the bot: the latest match was fetched, then fetched
\* again as the first id of the second listing, where the call failed and the
\* loop went on to the next id
C16_Witness ==
    /\ app = "bot" /\ RoastDelivered
    /\ probed = <<"americas", "europe">>
    /\ fetched = <<2, 2, 1>>
    /\ received[1] = None

\* the bot has returned a table of compute_teammate_compat(matches, name, tag)
CompatReturned == app = "bot" /\ Done("ok")

\* C17: in the table of compute_teammate_compat every row's games is at most
\* the number of supplied matches in which the target was located, and no row
\* carries the target's own identity, also when participants lack their name
\* and tag or repeat them.
C17_GamesBoundedNoSelf ==
    CompatReturned =>
        \A i \in DOMAIN result.team_rows :
            LET r == result.team_rows[i]
            IN  /\ r.g <= Len(Located(matches, name, tag))
                /\ ~EqIgnoringCase(r.tm, name \o Hash \o tag)

====
